---- MODULE Spec2Model ----
(***************************************************************************)
(* spark_tree_plotting.py: rendering of a fitted decision tree as DOT.     *)
(* The tree is the recursive dict parsed from JSON; here every dict is a   *)
(* record stored in the heap `tree`, and leftChild / rightChild hold the   *)
(* heap reference of the child dict.                                       *)
(***************************************************************************)
EXTENDS Integers, Sequences, FiniteSets, TLC

\* ---------------------------------------------------------------- bounds
MaxInternal == 3     \* most internal nodes of an input tree (7 nodes)
MaxPred     == 3     \* largest class index an input tree predicts
MaxBrew     == 60    \* largest n of a direct call generate_color_brew(n)

\* ------------------------------------------------------------- encodings
\* Python None / a present value
None == <<>>
Some(v) == <<v>>
IsNone(o) == Len(o) = 0
Val(o) == o[1]

\* the key "id" is absent from a dict until add_node_ids writes it
NoId == -1

\* number of decimals of the "%.4f" conversions; floats that are formatted
\* with it are carried as integer multiples of 10^-4
Decimals == 4

RECURSIVE Pow10(_)
Pow10(k) == IF k = 0 THEN 1 ELSE 10 * Pow10(k - 1)

Scale == Pow10(Decimals)

\* ------------------------------------------------------------- rationals
\* a float that is not formatted yet is the exact fraction <<num, den>>
RECURSIVE GCD(_, _)
GCD(a, b) == IF b = 0 THEN a ELSE GCD(b, a % b)

Norm(q) ==
  IF q[1] = 0 THEN <<0, 1>>
  ELSE LET g == GCD(q[1], q[2]) IN <<q[1] \div g, q[2] \div g>>

RatMul(p, q) == Norm(<<p[1] * q[1], p[2] * q[2]>>)
RatDiv(p, q) == Norm(<<p[1] * q[2], p[2] * q[1]>>)
RatSub(p, q) == Norm(<<p[1] * q[2] - q[1] * p[2], p[2] * q[2]>>)
RatEq(p, q) == p[1] * q[2] = q[1] * p[2]
RatLess(p, q) == p[1] * q[2] < q[1] * p[2]

\* "%.4f" % x: x rounded to 4 decimals, ties to even, in units of 10^-4
Format4f(q) ==
  LET n == q[1] * Scale
      d == q[2]
      lo == n \div d
      r2 == 2 * (n % d)
  IN  IF r2 < d THEN lo
      ELSE IF r2 > d THEN lo + 1
      ELSE IF lo % 2 = 0 THEN lo ELSE lo + 1

\* str(i) of a non-negative int: its decimal digits
Digit(d) == <<"0", "1", "2", "3", "4", "5", "6", "7", "8", "9">>[d + 1]

RECURSIVE IntToStr(_)
IntToStr(i) ==
  IF i < 10 THEN <<Digit(i)>> ELSE Append(IntToStr(i \div 10), Digit(i % 10))

\* ------------------------------------------------------ generate_color_brew
generate_color_brew_from1(n) ==
  LET hue_step == RatDiv(<<360, 1>>, <<n, 1>>)
  IN  [color \in 1..n |-> RatDiv(RatMul(<<color, 1>>, hue_step), <<360, 1>>)]

\* list index k of the Python result is element k+1 of the sequence
generate_color_brew(n) ==
  LET hue_step == RatDiv(<<360, 1>>, <<n, 1>>)
  IN  [color \in 1..n |-> RatDiv(RatMul(<<color - 1, 1>>, hue_step), <<360, 1>>)]

\* ------------------------------------------------------------ tree dicts
\* a heap reference of a node dict; tree_dict (the root) is reference 1
Root == 1

LeafNode(p, imp) ==
  [nodeType |-> "leaf", prediction |-> p, impurity |-> imp, id |-> NoId]

ContinuousNode(p, imp, f, thr, g, l, r) ==
  [nodeType |-> "internal", prediction |-> p, impurity |-> imp,
   featureIndex |-> f, splitType |-> "continuous", threshold |-> thr,
   gain |-> g, leftChild |-> l, rightChild |-> r, id |-> NoId]

CategoricalNode(p, imp, f, cats, g, l, r) ==
  [nodeType |-> "internal", prediction |-> p, impurity |-> imp,
   featureIndex |-> f, splitType |-> "categorical", leftCategories |-> cats,
   gain |-> g, leftChild |-> l, rightChild |-> r, id |-> NoId]

\* ------------------------------------------------------------ node_to_str
Min(a, b) == IF a < b THEN a ELSE b

\* for i in range(0, len(cats), 5): cats[i:i+5]
ChunkSize == 5

Chunks(cats) ==
  [k \in 1..((Len(cats) + ChunkSize - 1) \div ChunkSize) |->
     SubSeq(cats, ChunkSize * (k - 1) + 1, Min(ChunkSize * k, Len(cats)))]

\* lines 95 and 108: every index of every chunk as str(j)
RawLines(chunks) ==
  [k \in DOMAIN chunks |-> [m \in DOMAIN chunks[k] |-> IntToStr(chunks[k][m])]]

\* lines 93-96 and 106-109: the categories text without category names
RawCategories(cats) == [prefix |-> "categories# ", lines |-> RawLines(Chunks(cats))]

\* line 103: category_names[j] for every index of every chunk, where
\* category_names = dict(enumerate(labels)); used when every index is a key
NamedLines(chunks, labels) ==
  [k \in DOMAIN chunks |-> [m \in DOMAIN chunks[k] |-> <<labels[chunks[k][m] + 1]>>]]

\* lines 100-104: the categories text with category names
NamedCategories(cats, labels) == [prefix |-> "", lines |-> NamedLines(Chunks(cats), labels)]

\* the try block of lines 99-104 raises KeyError when the feature name is
\* not a key of categoryNames or an index is not a key of category_names
CategoryLookupHits(categoryNames, feature_name, cats) ==
  /\ ~feature_name.isInt
  /\ feature_name.s \in DOMAIN Val(categoryNames)
  /\ \A m \in DOMAIN cats :
       cats[m] + 1 \in DOMAIN Val(categoryNames)[feature_name.s]

CategoriesNoExcept(categoryNames, feature_name, cats) ==
  IF IsNone(categoryNames) THEN Some(RawCategories(cats))
  ELSE IF CategoryLookupHits(categoryNames, feature_name, cats)
       THEN Some(NamedCategories(cats, Val(categoryNames)[feature_name.s]))
       ELSE None

\* lines 91-109, for a categorical split: None would be an escaping KeyError
Categories(categoryNames, feature_name, cats) ==
  IF IsNone(categoryNames) THEN Some(RawCategories(cats))
  ELSE IF CategoryLookupHits(categoryNames, feature_name, cats)
       THEN Some(NamedCategories(cats, Val(categoryNames)[feature_name.s]))
       ELSE Some(RawCategories(cats))

\* lines 70-76
ClassNameStr(node, classNames) ==
  IF IsNone(classNames) THEN Some(<<"Class #">> \o IntToStr(node.prediction))
  ELSE IF node.prediction + 1 \in DOMAIN Val(classNames)
       THEN Some(<<Val(classNames)[node.prediction + 1]>>)
       ELSE None

\* lines 83-89: the feature name used as dict key, and its text
FeatureName(node, featureNames) ==
  IF IsNone(featureNames)
  THEN Some([isInt |-> TRUE, i |-> node.featureIndex, s |-> "",
             str |-> <<"Feature #">> \o IntToStr(node.featureIndex)])
  ELSE IF node.featureIndex + 1 \in DOMAIN Val(featureNames)
       THEN Some([isInt |-> FALSE, i |-> 0,
                  s |-> Val(featureNames)[node.featureIndex + 1],
                  str |-> <<Val(featureNames)[node.featureIndex + 1]>>])
       ELSE None

LeafShapeAlways(node, round_leaves) ==
  IF round_leaves THEN <<[attr |-> "shape", value |-> "ellipse"]>> ELSE <<>>

\* lines 135-136 (the else branch of line 81)
LeafShape(node, round_leaves) ==
  IF node.nodeType # "internal" /\ round_leaves
  THEN <<[attr |-> "shape", value |-> "ellipse"]>>
  ELSE <<>>

\* lines 113-134: the label attribute
Label(node, fname, cats, class_name_str) ==
  IF node.nodeType = "internal"
  THEN IF node.splitType = "continuous"
       THEN [attr |-> "label", nodeId |-> IntToStr(node.id),
             feature |-> fname.str, op |-> "<=",
             threshold |-> Format4f(node.threshold),
             impurity |-> Format4f(node.impurity),
             gain |-> Format4f(node.gain), prediction |-> class_name_str]
       ELSE [attr |-> "label", nodeId |-> IntToStr(node.id),
             feature |-> fname.str, op |-> "in",
             categories |-> cats,
             impurity |-> Format4f(node.impurity),
             gain |-> Format4f(node.gain), prediction |-> class_name_str]
  ELSE [attr |-> "label", nodeId |-> IntToStr(node.id),
        impurity |-> Format4f(node.impurity), prediction |-> class_name_str]

\* lines 142-145
FillColor(node, colorBrew) ==
  [attr |-> "fillcolor",
   h |-> Format4f(colorBrew[node.prediction + 1]),
   s |-> Format4f(RatSub(<<1, 1>>, node.impurity)),
   v |-> Format4f(<<1, 1>>)]

\* an exception of class kind escaping from the lookup in `at`
Raise(kind, at, nodeList) ==
  [raised |-> Some([kind |-> kind, at |-> at]), nodeList |-> nodeList, ret |-> <<>>]

\* lines 135-149: the attributes around the label, the statement appended
\* to nodeList, the id returned
Emit(node, label, nodeList, fill, round_leaves, colorBrew) ==
  IF fill /\ node.prediction + 1 \notin DOMAIN colorBrew
  THEN Raise("IndexError", "colorBrew", nodeList)
  ELSE [raised |-> None,
        nodeList |-> Append(nodeList,
                            [id |-> IntToStr(node.id),
                             attributes |->
                               LeafShape(node, round_leaves) \o <<label>>
                               \o (IF fill THEN <<FillColor(node, colorBrew)>> ELSE <<>>)]),
        ret |-> IntToStr(node.id)]

\* lines 111-128 on: an internal node whose categories text is categ
\* (None: the KeyError of the category lookup escaped)
EmitInternal(node, cls, fname, categ, nodeList, fill, round_leaves, colorBrew) ==
  IF IsNone(categ) THEN Raise("KeyError", "categoryNames", nodeList)
  ELSE Emit(node, Label(node, fname, Val(categ), cls), nodeList, fill, round_leaves, colorBrew)

\* lines 91-128 on: an internal node whose feature name is fname (None: the
\* KeyError of line 88)
FormatInternal(node, cls, fname, catNames, nodeList, fill, round_leaves, colorBrew) ==
  IF IsNone(fname) THEN Raise("KeyError", "featureNames", nodeList)
  ELSE EmitInternal(node, cls, Val(fname),
                    IF node.splitType = "categorical"
                    THEN Categories(catNames, Val(fname), node.leftCategories)
                    ELSE Some(<<>>),
                    nodeList, fill, round_leaves, colorBrew)

\* lines 78-151: a node whose class name is cls (None: the KeyError of
\* line 75)
FormatNode(node, cls, featNames, catNames, nodeList, fill, round_leaves, colorBrew) ==
  IF IsNone(cls) THEN Raise("KeyError", "classNames", nodeList)
  ELSE IF node.nodeType = "internal"
       THEN FormatInternal(node, Val(cls), FeatureName(node, featNames), catNames,
                           nodeList, fill, round_leaves, colorBrew)
       ELSE Emit(node, Label(node, <<>>, <<>>, Val(cls)), nodeList, fill,
                 round_leaves, colorBrew)

\* the result is the exception that escapes (or None), nodeList after the
\* call and the returned str(node["id"])
node_to_str(node, featNames, catNames, clsNames, numClasses, nodeList, fill, round_leaves, colorBrew) ==
  FormatNode(node, ClassNameStr(node, clsNames), featNames, catNames, nodeList,
             fill, round_leaves, colorBrew)

\* ------------------------------------------------------------------ state
VARIABLES
  tree,               \* heap of node dicts: reference -> dict
  featureNames,       \* arguments of export_graphviz
  categoryNames,
  classNames,
  filled,
  roundedCorners,
  roundLeaves,
  pc,                 \* the function export_graphviz is executing
  nodes_to_explore,   \* worklist of the running traversal (references)
  classes,            \* get_num_classes: set of predictions seen
  num_classes,
  color_brew,
  counter,            \* add_node_ids: last id given
  tree_dict_with_id,  \* reference returned by add_node_ids
  node_list,
  relations,
  raised,             \* exception that ended export_graphviz, or None
  dot_string

args == <<featureNames, categoryNames, classNames, filled, roundedCorners, roundLeaves>>

vars == <<tree, featureNames, categoryNames, classNames, filled, roundedCorners,
          roundLeaves, pc, nodes_to_explore, classes, num_classes, color_brew,
          counter, tree_dict_with_id, node_list, relations, raised, dot_string>>

Refs == DOMAIN tree

\* value of a reference variable that is not bound yet
NoRef == 0

\* list.pop() and list.pop(0)
Last(q) == q[Len(q)]
Front(q) == SubSeq(q, 1, Len(q) - 1)

SetMax(S) == CHOOSE m \in S : \A x \in S : x <= m

\* ---------------------------------------------------------- get_num_classes
\* lines 172-174 of get_num_classes, 199-201 of add_node_ids
PushChildren(q, t, n) ==
  IF t[n].nodeType = "internal"
  THEN Append(Append(q, t[n].leftChild), t[n].rightChild)
  ELSE q

SeenLeavesOnly(cls, t, n) ==
  IF t[n].nodeType = "leaf" THEN cls \cup {t[n].prediction} ELSE cls

\* line 170
Seen(cls, t, n) == cls \cup {t[n].prediction}

\* one iteration of the loop of lines 166-174
GetNumClassesStep ==
  /\ pc = "get_num_classes"
  /\ Len(nodes_to_explore) > 0
  /\ LET current_node == Last(nodes_to_explore)
     IN  /\ classes' = Seen(classes, tree, current_node)
         /\ nodes_to_explore' = PushChildren(Front(nodes_to_explore), tree, current_node)
  /\ UNCHANGED <<tree, args, pc, num_classes, color_brew, counter,
                 tree_dict_with_id, node_list, relations, raised, dot_string>>

NumClassesDistinct(cls) == Cardinality(cls)

\* line 175
NumClasses(cls) == SetMax(cls) + 1

\* line 175, then lines 347-348 of export_graphviz and the entry of
\* add_node_ids (lines 189-190)
GetNumClassesReturn ==
  /\ pc = "get_num_classes"
  /\ Len(nodes_to_explore) = 0
  /\ num_classes' = NumClasses(classes)
  /\ color_brew' = generate_color_brew(NumClasses(classes))
  /\ node_list' = <<>>
  /\ nodes_to_explore' = <<Root>>
  /\ counter' = -1
  /\ pc' = "add_node_ids"
  /\ UNCHANGED <<tree, args, classes, tree_dict_with_id, relations, raised, dot_string>>

\* ------------------------------------------------------------- add_node_ids
AssignIdAndChildren(t, n, c) ==
  [m \in DOMAIN t |->
     IF m = n \/ (t[n].nodeType = "internal" /\ m \in {t[n].leftChild, t[n].rightChild})
     THEN [t[m] EXCEPT !.id = c] ELSE t[m]]

\* line 196
AssignId(t, n, c) == [t EXCEPT ![n].id = c]

PopFirstLifo(q) == <<Last(q), Front(q)>>

\* line 194: pop(0) gives the first element and the rest
PopFirst(q) == <<Head(q), Tail(q)>>

\* one iteration of the loop of lines 191-201
AddNodeIdsStep ==
  /\ pc = "add_node_ids"
  /\ Len(nodes_to_explore) > 0
  /\ LET popped == PopFirst(nodes_to_explore)
         current_node == popped[1]
     IN  /\ counter' = counter + 1
         /\ tree' = AssignId(tree, current_node, counter + 1)
         /\ nodes_to_explore' = PushChildren(popped[2], tree, current_node)
  /\ UNCHANGED <<args, pc, classes, num_classes, color_brew, tree_dict_with_id,
                 node_list, relations, raised, dot_string>>

\* line 202, then the entry of relations_to_str (lines 249-250)
AddNodeIdsReturn ==
  /\ pc = "add_node_ids"
  /\ Len(nodes_to_explore) = 0
  /\ tree_dict_with_id' = Root
  /\ nodes_to_explore' = <<Root>>
  /\ relations' = <<>>
  /\ pc' = "relations_to_str"
  /\ UNCHANGED <<tree, args, classes, num_classes, color_brew, counter,
                 node_list, raised, dot_string>>

\* --------------------------------------------------------- relations_to_str
PushRightThenLeft(q, t, n) == Append(Append(q, t[n].rightChild), t[n].leftChild)

\* lines 264 and 273
PushLeftThenRight(q, t, n) == Append(Append(q, t[n].leftChild), t[n].rightChild)

\* the edge text of lines 259-263 and 268-272
Edge(source, target, branch) ==
  [source |-> source, target |-> target, labeldistance |-> <<5, 2>>,
   labelangle |-> IF branch THEN 45 ELSE -45,
   headlabel |-> IF branch THEN "True" ELSE "False"]

\* node_to_str with the arguments relations_to_str passes on
Format(t, n, nl) ==
  node_to_str(t[n], featureNames, categoryNames, classNames, num_classes, nl,
              filled, roundLeaves, color_brew)

\* the relation of lines 257-263 / 266-272 once both operands a and b are
\* evaluated; an exception leaves relations as it was
JoinRelation(rel, a, b, branch) ==
  IF ~IsNone(b.raised)
  THEN [raised |-> b.raised, nodeList |-> b.nodeList, relations |-> rel]
  ELSE [raised |-> None, nodeList |-> b.nodeList,
        relations |-> Append(rel, Edge(a.ret, b.ret, branch))]

WithTargetUnthreaded(rel, nl, a, t, child, branch) ==
  IF ~IsNone(a.raised)
  THEN [raised |-> a.raised, nodeList |-> a.nodeList, relations |-> rel]
  ELSE JoinRelation(rel, a, Format(t, child, nl), branch)

\* the right operand node_to_str(child) is evaluated after the left operand
\* a, on the nodeList a left behind
WithTarget(rel, a, t, child, branch) ==
  IF ~IsNone(a.raised)
  THEN [raised |-> a.raised, nodeList |-> a.nodeList, relations |-> rel]
  ELSE JoinRelation(rel, a, Format(t, child, a.nodeList), branch)

AppendRelationTargetOnly(rel, nl, t, current_node, child, branch) ==
  WithTargetUnthreaded(rel, nl, Format(t, current_node, nl), t, child, branch)

\* relations.append(node_to_str(current_node) + "->" + node_to_str(child) + ...)
AppendRelation(rel, nl, t, current_node, child, branch) ==
  WithTarget(rel, Format(t, current_node, nl), t, child, branch)

\* lines 266-273 after the first relation gave `first`
SecondRelation(first, t, current_node, child) ==
  IF ~IsNone(first.raised) THEN first
  ELSE AppendRelation(first.relations, first.nodeList, t, current_node, child, FALSE)

BothRelationsLeftTwice(rel, nl, t, current_node) ==
  SecondRelation(AppendRelation(rel, nl, t, current_node, t[current_node].leftChild, TRUE),
                 t, current_node, t[current_node].leftChild)

\* lines 257-273 for an internal current_node: both relations
BothRelations(rel, nl, t, current_node) ==
  SecondRelation(AppendRelation(rel, nl, t, current_node, t[current_node].leftChild, TRUE),
                 t, current_node, t[current_node].rightChild)

\* the state after lines 257-273 gave `out`: the loop goes on, or the
\* exception ends export_graphviz
AfterRelations(out, rest, current_node) ==
  /\ node_list' = out.nodeList
  /\ relations' = out.relations
  /\ raised' = out.raised
  /\ IF IsNone(out.raised)
     THEN /\ pc' = pc
          /\ nodes_to_explore' = PushLeftThenRight(rest, tree, current_node)
     ELSE /\ pc' = "raised"
          /\ nodes_to_explore' = rest

\* line 254-273 with current_node popped and `rest` left on the stack
Visit(current_node, rest) ==
  IF tree[current_node].nodeType = "leaf"
  THEN /\ nodes_to_explore' = rest
       /\ UNCHANGED <<node_list, relations, raised, pc>>
  ELSE AfterRelations(BothRelations(relations, node_list, tree, current_node),
                      rest, current_node)

\* one iteration of the loop of lines 251-273
RelationsStep ==
  /\ pc = "relations_to_str"
  /\ Len(nodes_to_explore) > 0
  /\ Visit(Last(nodes_to_explore), Front(nodes_to_explore))
  /\ UNCHANGED <<tree, args, classes, num_classes, color_brew, counter,
                 tree_dict_with_id, dot_string>>

\* lines 361-365
FilledAndRounded(f, r) ==
  (IF f THEN <<"filled">> ELSE <<>>) \o (IF r THEN <<"rounded">> ELSE <<>>)

\* line 274, then lines 360-372 of export_graphviz
RelationsReturn ==
  /\ pc = "relations_to_str"
  /\ Len(nodes_to_explore) = 0
  /\ dot_string' = Some([style |-> FilledAndRounded(filled, roundedCorners),
                         graph |-> relations,
                         node_properties |-> node_list])
  /\ pc' = "done"
  /\ UNCHANGED <<tree, args, nodes_to_explore, classes, num_classes, color_brew,
                 counter, tree_dict_with_id, node_list, relations, raised>>

Next ==
  \/ GetNumClassesStep
  \/ GetNumClassesReturn
  \/ AddNodeIdsStep
  \/ AddNodeIdsReturn
  \/ RelationsStep
  \/ RelationsReturn

\* ------------------------------------------------------------------ inputs
RECURSIVE Pow2(_)
Pow2(k) == IF k = 0 THEN 1 ELSE 2 * Pow2(k - 1)

\* a tree shape is the set of its internal nodes; node n has children 2n and
\* 2n+1, so a set is a shape when it holds the parent of each of its members
Shapes ==
  {I \in SUBSET (1..(Pow2(MaxInternal) - 1)) :
     /\ Cardinality(I) <= MaxInternal
     /\ \A n \in I : n = Root \/ (n \div 2) \in I}

NodesOf(I) == {Root} \cup {2 * n : n \in I} \cup {2 * n + 1 : n \in I}

\* every node predicts class base, but node hot predicts class peak
Predictions(I, base, hot, peak) ==
  [n \in NodesOf(I) |-> IF n = hot THEN peak ELSE base]

\* a tree of continuous splits on feature n % 3, threshold 1.5, impurity
\* 0.32, gain 0.1, with pure leaves
ContinuousTree(I, pred) ==
  [n \in NodesOf(I) |->
     IF n \in I
     THEN ContinuousNode(pred[n], <<8, 25>>, n % 3, <<3, 2>>, <<1, 10>>, 2 * n, 2 * n + 1)
     ELSE LeafNode(pred[n], <<0, 1>>)]

CatLists == {<<0>>, <<1, 0>>, <<0, 1, 2, 3, 4, 5>>}

\* the root dicts of the three-node trees: one continuous split and the
\* categorical splits over CatLists, on feature 0 or 1
RootDicts ==
  {ContinuousNode(0, <<8, 25>>, f, <<3, 2>>, <<1, 10>>, 2, 3) : f \in 0..1}
  \cup {CategoricalNode(0, <<8, 25>>, f, c, <<1, 10>>, 2, 3) : f \in 0..1, c \in CatLists}

FeatureNamesArgs == {None, Some(<<"f0", "f1">>), Some(<<"f0">>)}

CategoryNamesArgs ==
  {None,
   Some([k \in {} |-> <<>>]),
   Some([k \in {"f0"} |-> <<"a", "b">>]),
   Some([k \in {"f0", "f1"} |-> <<"a", "b", "c", "d", "e", "f">>])}

ClassNamesArgs == {None, Some(<<"no", "yes">>)}

Start(t, fn, cn, cl, f, rc, rl) ==
  /\ tree = t
  /\ featureNames = fn
  /\ categoryNames = cn
  /\ classNames = cl
  /\ filled = f
  /\ roundedCorners = rc
  /\ roundLeaves = rl
  /\ pc = "get_num_classes"
  /\ nodes_to_explore = <<Root>>
  /\ classes = {}
  /\ num_classes = 0
  /\ color_brew = <<>>
  /\ counter = -1
  /\ tree_dict_with_id = NoRef
  /\ node_list = <<>>
  /\ relations = <<>>
  /\ raised = None
  /\ dot_string = None

\* export_graphviz with the default names on every tree shape
InitTree ==
  \E I \in Shapes, base \in 0..MaxPred, peak \in 0..MaxPred, f \in BOOLEAN, rl \in BOOLEAN :
    \E hot \in NodesOf(I) :
      Start(ContinuousTree(I, Predictions(I, base, hot, peak)),
            None, None, None, f, TRUE, rl)

\* export_graphviz with every combination of names on the three-node trees
InitNames ==
  \E root \in RootDicts, p \in 1..2, fn \in FeatureNamesArgs,
     cn \in CategoryNamesArgs, cl \in ClassNamesArgs,
     f \in BOOLEAN, rc \in BOOLEAN, rl \in BOOLEAN :
    Start([n \in 1..3 |-> IF n = Root THEN root
                          ELSE LeafNode(IF n = 2 THEN 0 ELSE p, <<0, 1>>)],
          fn, cn, cl, f, rc, rl)

\* the state at line 346 of export_graphviz, get_num_classes entered
Init == InitTree \/ InitNames

Spec == Init /\ [][Next]_vars

\* ------------------------------------------- generate_color_brew on its own
\* a direct call generate_color_brew(n): no tree is loaded, num_classes
\* holds the argument n
InitBrew ==
  \E n \in 1..MaxBrew :
    /\ tree = <<>>
    /\ featureNames = None
    /\ categoryNames = None
    /\ classNames = None
    /\ filled = TRUE
    /\ roundedCorners = TRUE
    /\ roundLeaves = TRUE
    /\ pc = "generate_color_brew"
    /\ nodes_to_explore = <<>>
    /\ classes = {}
    /\ num_classes = n
    /\ color_brew = <<>>
    /\ counter = -1
    /\ tree_dict_with_id = NoRef
    /\ node_list = <<>>
    /\ relations = <<>>
    /\ raised = None
    /\ dot_string = None

\* lines 17-18
GenerateColorBrewCall ==
  /\ pc = "generate_color_brew"
  /\ color_brew' = generate_color_brew(num_classes)
  /\ pc' = "returned"
  /\ UNCHANGED <<tree, args, nodes_to_explore, classes, num_classes, counter,
                 tree_dict_with_id, node_list, relations, raised, dot_string>>

NextBrew == GenerateColorBrewCall

SpecBrew == InitBrew /\ [][NextBrew]_vars

\* ------------------------------------------------------- tree vocabulary
Internals == {n \in Refs : tree[n].nodeType = "internal"}

ParentOf(n) == CHOOSE p \in Internals : n \in {tree[p].leftChild, tree[p].rightChild}

\* the branches taken from the root to n: 0 for left, 1 for right
RECURSIVE PathOf(_)
PathOf(n) ==
  IF n = Root THEN <<>>
  ELSE Append(PathOf(ParentOf(n)), IF n = tree[ParentOf(n)].leftChild THEN 0 ELSE 1)

\* the path of every node; d with d = Paths is evaluated once per state
Paths == [n \in Refs |-> PathOf(n)]

\* n is to the left of m, both at the same depth, in the paths d
LeftOf(d, n, m) ==
  \E k \in 1..Len(d[n]) :
    /\ SubSeq(d[n], 1, k - 1) = SubSeq(d[m], 1, k - 1)
    /\ d[n][k] < d[m][k]

\* m is a node of the subtree rooted at n, in the paths d
InSubtree(d, m, n) ==
  /\ Len(d[m]) >= Len(d[n])
  /\ SubSeq(d[m], 1, Len(d[n])) = d[n]

\* the full binary tree of 7 nodes: 3 internal nodes, 4 leaves at depth 2
IsFullSevenNodeTree ==
  /\ Cardinality(Refs) = 7
  /\ tree[tree[Root].leftChild].nodeType = "internal"
  /\ tree[tree[Root].rightChild].nodeType = "internal"

IdStr(n) == IntToStr(tree[n].id)

AfterAddNodeIds == pc \in {"relations_to_str", "done", "raised"}

\* ----------------------------------------------------------------- claims
\* C1: after add_node_ids the ids are pairwise distinct, are exactly
\* 0..nodeCount-1, the root has id 0, and ids follow breadth-first order:
\* a node at depth d has a smaller id than every node at depth d+1 (hence
\* than every deeper node), ids increase left to right within a depth, and
\* a left child's id is smaller than its sibling's.
C1_BreadthFirstIds ==
  AfterAddNodeIds => \A d \in {Paths} :
    /\ \A n, m \in Refs : n # m => tree[n].id # tree[m].id
    /\ {tree[n].id : n \in Refs} = 0..(Cardinality(Refs) - 1)
    /\ tree[Root].id = 0
    /\ \A n, m \in Refs : Len(d[m]) = Len(d[n]) + 1 => tree[n].id < tree[m].id
    /\ \A n, m \in Refs :
         Len(d[n]) = Len(d[m]) /\ LeftOf(d, n, m) => tree[n].id < tree[m].id
    /\ \A n \in Internals : tree[tree[n].leftChild].id < tree[tree[n].rightChild].id

\* a 7-node tree numbered, root 0, its left child 1, its right child 2
C1_Witness ==
  /\ AfterAddNodeIds
  /\ Cardinality(Refs) = 7
  /\ tree[Root].id = 0
  /\ tree[tree[Root].leftChild].id = 1
  /\ tree[tree[Root].rightChild].id = 2

C3_EdgesPerInternalNode ==
  pc = "done" =>
    LET Idx == DOMAIN relations
        Is(i, n, child, label) ==
          /\ relations[i].source = IdStr(n)
          /\ relations[i].target = IdStr(child)
          /\ relations[i].headlabel = label
    IN  /\ Len(relations) = 2 * Cardinality(Internals)
        /\ \A n \in Internals :
             /\ Cardinality({i \in Idx : Is(i, n, tree[n].leftChild, "True")}) = 1
             /\ Cardinality({i \in Idx : Is(i, n, tree[n].rightChild, "False")}) = 1
        /\ \A i \in Idx : \E n \in Internals :
             \/ Is(i, n, tree[n].leftChild, "True")
             \/ Is(i, n, tree[n].rightChild, "False")
        /\ \A n \in Refs :
             Cardinality({i \in Idx : relations[i].target = IdStr(n)})
               = IF n = Root THEN 0 ELSE 1

\* the 7-node full binary tree rendered: 6 edges
C3_Witness ==
  /\ pc = "done"
  /\ IsFullSevenNodeTree
  /\ Len(relations) = 6

\* C4 as stated: after relations_to_str the node-statement collection holds
\* exactly N entries for a tree of N nodes.
C4_OneEntryPerNode ==
  pc = "done" => Len(node_list) = Cardinality(Refs)

\* C4 amended: after relations_to_str the collection holds exactly
\* 4 x (number of internal nodes) entries, duplicates counted: each internal
\* node is formatted twice as the source of its two edges and every non-root
\* node once as the target of an edge (12 entries for the 7-node full tree).
C4_FourEntriesPerInternalNode ==
  pc = "done" =>
    /\ Len(node_list) = 4 * Cardinality(Internals)
    /\ \A n \in Refs :
         Cardinality({i \in DOMAIN node_list : node_list[i].id = IdStr(n)})
           = (IF n \in Internals THEN 2 ELSE 0) + (IF n = Root THEN 0 ELSE 1)

\* the 7-node full binary tree rendered: 12 entries
C4_Witness ==
  /\ pc = "done"
  /\ IsFullSevenNodeTree
  /\ Len(node_list) = 12

\* the node whose id an entry of node_list or an edge carries
NodeWithId(idstr) == CHOOSE n \in Refs : IdStr(n) = idstr

HasEllipse(entry) ==
  \E k \in DOMAIN entry.attributes :
    /\ entry.attributes[k].attr = "shape"
    /\ entry.attributes[k].value = "ellipse"

LabelOf(entry) ==
  entry.attributes[CHOOSE k \in DOMAIN entry.attributes :
                     entry.attributes[k].attr = "label"]

\* C5: a node statement produced by node_to_str has the ellipse shape
\* override if and only if the node is a leaf and roundLeaves is true.
C5_EllipseIffRoundLeaf ==
  \A i \in DOMAIN node_list :
    HasEllipse(node_list[i])
      <=> (tree[NodeWithId(node_list[i].id)].nodeType = "leaf" /\ roundLeaves)

\* roundLeaves is true and the tree is rendered: a leaf statement with the
\* override and an internal node's statement without it
C5_Witness ==
  /\ pc = "done"
  /\ roundLeaves
  /\ \E i, j \in DOMAIN node_list :
       /\ tree[NodeWithId(node_list[i].id)].nodeType = "leaf"
       /\ HasEllipse(node_list[i])
       /\ tree[NodeWithId(node_list[j].id)].nodeType = "internal"
       /\ ~HasEllipse(node_list[j])

\* the category lookup of lines 99-104 misses for internal node n
CategoryMiss(n) ==
  /\ tree[n].nodeType = "internal"
  /\ tree[n].splitType = "categorical"
  /\ ~IsNone(FeatureName(tree[n], featureNames))
  /\ \/ IsNone(categoryNames)
     \/ ~CategoryLookupHits(categoryNames, Val(FeatureName(tree[n], featureNames)),
                            tree[n].leftCategories)

\* the items of a categories text, line after line
RECURSIVE Flatten(_)
Flatten(lines) ==
  IF Len(lines) = 0 THEN <<>> ELSE Head(lines) \o Flatten(Tail(lines))

\* the class name and feature name lookups of lines 75 and 88 succeed
NameLookupsHit ==
  \A n \in Refs :
    /\ ~IsNone(ClassNameStr(tree[n], classNames))
    /\ tree[n].nodeType = "internal" => ~IsNone(FeatureName(tree[n], featureNames))

\* C6: a lookup miss in category naming is never an error: when
\* categoryNames is absent, or has no entry for the node's feature name, or
\* the feature's labels have no entry for some index of leftCategories,
\* node_to_str still appends a node statement and returns the node id (so
\* export_graphviz ends normally when the other name lookups succeed), and
\* the statement shows the left categories as their raw integer indices.
C6_CategoryMissIsNotAnError ==
  /\ ~IsNone(raised) => Val(raised).at # "categoryNames"
  /\ NameLookupsHit => pc # "raised"
  /\ \A i \in DOMAIN node_list :
       CategoryMiss(NodeWithId(node_list[i].id)) =>
         Flatten(LabelOf(node_list[i]).categories.lines)
           = [k \in DOMAIN tree[NodeWithId(node_list[i].id)].leftCategories |->
                IntToStr(tree[NodeWithId(node_list[i].id)].leftCategories[k])]
  /\ pc = "done" =>
       \A n \in Refs : CategoryMiss(n) =>
         /\ \E i \in DOMAIN node_list : node_list[i].id = IdStr(n)
         /\ \E i \in DOMAIN relations : relations[i].source = IdStr(n)

\* categoryNames has labels for the feature of the root, but not for every
\* index of its leftCategories, and the tree is rendered
C6_Witness ==
  /\ pc = "done"
  /\ CategoryMiss(Root)
  /\ ~IsNone(categoryNames)
  /\ ~IsNone(featureNames)
  /\ Val(featureNames)[tree[Root].featureIndex + 1] \in DOMAIN Val(categoryNames)
  /\ \E i \in DOMAIN node_list : node_list[i].id = IdStr(Root)

\* C7: with non-negative integer predictions every node's prediction lies
\* in [0, numClasses), so with filled = true the lookup
\* colorBrew[prediction] is within bounds for every node formatted and
\* never fails.
C7_PredictionIndexesColorBrew ==
  pc # "get_num_classes" =>
    /\ Len(color_brew) = num_classes
    /\ \A n \in Refs : tree[n].prediction \in 0..(num_classes - 1)
    /\ \A n \in Refs : tree[n].prediction + 1 \in DOMAIN color_brew
    /\ ~IsNone(raised) => Val(raised).at # "colorBrew"

\* filled rendering of a tree that predicts classes 0 and 2 only: the node
\* of class 2 is formatted with a fill colour
C7_Witness ==
  /\ pc = "done"
  /\ filled
  /\ {tree[n].prediction : n \in Refs} = {0, 2}
  /\ \E i \in DOMAIN node_list :
       /\ tree[NodeWithId(node_list[i].id)].prediction = 2
       /\ \E k \in DOMAIN node_list[i].attributes :
            node_list[i].attributes[k].attr = "fillcolor"

C9_EdgeOrderIsRightFirstPreorder ==
  pc = "done" =>
    LET Idx == DOMAIN relations IN
    \A d \in {Paths}, Src \in {[i \in Idx |-> NodeWithId(relations[i].source)]} :
        /\ \A n \in Internals : \E i \in Idx :
             /\ i + 1 \in Idx
             /\ Src[i] = n /\ relations[i].headlabel = "True"
             /\ Src[i + 1] = n /\ relations[i + 1].headlabel = "False"
        /\ \A i, j \in Idx :
             Src[j] # Root /\ Src[i] = ParentOf(Src[j]) => i < j
        /\ \A n \in Internals : \A i, j \in Idx :
             /\ InSubtree(d, Src[i], tree[n].rightChild)
             /\ InSubtree(d, Src[j], tree[n].leftChild)
             => i < j

\* the 7-node full tree rendered: the root's edges, then the edges of its
\* right child, then those of its left child
C9_Witness ==
  /\ pc = "done"
  /\ IsFullSevenNodeTree
  /\ Len(relations) = 6
  /\ relations[3].source = IdStr(tree[Root].rightChild)
  /\ relations[5].source = IdStr(tree[Root].leftChild)

\* the dict of node n with its id left out of the comparison
SameButId(old, new) == new = [old EXCEPT !.id = new.id]

\* C10: the tree is mutated only by add_node_ids and only in the id field:
\* every step leaves nodeType, prediction, impurity, the split fields and
\* the child links of every node unchanged; an id changes only in a step of
\* add_node_ids, one node per step, and an id once written is never written
\* again; add_node_ids returns the same root with every id written;
\* get_num_classes and relations_to_str change no field of any node, and no
\* step changes the arguments.
C10_OnlyAddNodeIdsWritesIds ==
  /\ [][/\ DOMAIN tree' = DOMAIN tree
        /\ \A n \in Refs : SameButId(tree[n], tree'[n])
        /\ \A n \in Refs : tree[n].id # NoId => tree'[n].id = tree[n].id
        /\ Cardinality({n \in Refs : tree'[n].id # tree[n].id}) <= 1
        /\ tree' # tree => pc = "add_node_ids" /\ pc' = "add_node_ids"
        /\ pc \in {"get_num_classes", "relations_to_str"} => tree' = tree
        /\ args' = args]_vars
  /\ [](AfterAddNodeIds =>
          /\ tree_dict_with_id = Root
          /\ \A n \in Refs : tree[n].id # NoId)
  /\ [](pc = "get_num_classes" => \A n \in Refs : tree[n].id = NoId)

\* the whole of export_graphviz has run on a 7-node tree: ids written,
\* statements and edges produced
C10_Witness ==
  /\ pc = "done"
  /\ Cardinality(Refs) = 7
  /\ \A n \in Refs : tree[n].id # NoId
  /\ Len(node_list) > 0
  /\ Len(relations) > 0

\* C11: when relations_to_str terminates, the set of distinct ids that have
\* at least one entry in the node-statement collection is exactly the set
\* of ids of all nodes of the tree, also for a tree that is a single leaf
\* root.
C11_EveryNodeDeclared ==
  pc = "done" =>
    {node_list[i].id : i \in DOMAIN node_list} = {IdStr(n) : n \in Refs}

====
